---- MODULE Spec2Model ----
(***************************************************************************)
(* Model of the pyzmq build harness: setup.py and buildutils/config.py.    *)
(*                                                                         *)
(*   SpecArgv      the start-up loop of setup.py that moves --zmq=...      *)
(*                 behind the configure command                            *)
(*   SpecConfig    one call of merge, discover_settings or                 *)
(*                 config_from_prefix of buildutils/config.py              *)
(*   SpecConfigure the configure command: Configure.finalize_options and   *)
(*                 Configure.run, over successive invocations of setup.py  *)
(*                 that share the saved config.json                        *)
(*   SpecSDist     setup.py sdist: the module-level choice of the cython   *)
(*                 command, then CheckSDist                                *)
(*                                                                         *)
(* Python values are tagged records [t |-> <type>, v |-> <payload>]; str   *)
(* payloads are sequences of one-character strings so that lower() and     *)
(* abspath() are computed, not assumed.                                    *)
(***************************************************************************)
EXTENDS Integers, Sequences, FiniteSets, TLC

VARIABLES
    \* ---- setup.py module level: the --zmq= rewriting loop ----
    argv,            \* sys.argv
    args,            \* list(sys.argv), the snapshot the loop iterates over
    idx,             \* index of the next element of args (0-based)
    configure_idx,   \* index of the last 'configure' seen, -1 if none
    fetch_idx,       \* index of the last 'fetch_libzmq' seen, -1 if none
    apc,             \* "loop" | "done" ("idle" outside SpecArgv)
    \* ---- buildutils/config.py: one call of one function ----
    fn,              \* "merge" | "discover_settings" | "config_from_prefix"
    m_into,          \* merge: the object passed as `into` (updated in place)
    m_old,           \* merge: the value `into` had when merge was called
    platform,        \* sys.platform
    m_d,             \* merge: the object passed as `d`
    conf_json,       \* discover_settings: <conf_base>/config.json, NoFile if absent
    setup_cfg,       \* discover_settings: setup.cfg as sections, NoFile if absent
    environ,         \* os.environ: ZMQ_PREFIX and ZMQ_DRAFT_API, Unset or a str
    cwd,             \* os.getcwd()
    prefix,          \* config_from_prefix: its argument
    ret,             \* the value returned
    exc,             \* "" or the name of the exception raised
    cpc,             \* "call" | "returned" | "raised" ("idle" outside SpecConfig)
    \* ---- setup.py: the configure command ----
    opt_zmq,         \* the --zmq option of the command line, PyNone if not given
    config,          \* Configure.config
    run_cfg,         \* Configure.config as Configure.run found it
    rpc,             \* where the command is ("idle" outside SpecConfigure)
    calls,           \* the calls Configure.run has made, in order
    last_check,      \* the last check_zmq_version: what it saw and did
    ext_bundled,     \* zmq.libzmq is registered in distribution.ext_modules
    target_zmq,      \* buildutils.bundled_version
    runs,            \* invocations of setup.py so far
    \* ---- setup.py: the sdist command ----
    files,           \* the files under zmq/, each a <<stem, extension>>
    cython,          \* setup.py's `cython`: a usable Cython was imported
    cmdclass,        \* setup.py's cmdclass: command name -> class name
    pyxfiles,        \* CheckSDist._pyxfiles
    sdist_warned,    \* warn() was called by the cython command
    spc              \* where setup.py sdist is ("idle" outside SpecSDist)

argvVars == <<argv, args, idx, configure_idx, fetch_idx, apc>>
confVars == <<fn, m_into, m_old, platform, m_d, conf_json, setup_cfg, environ, cwd, prefix, ret, exc, cpc>>
cmdVars == <<opt_zmq, config, run_cfg, rpc, calls, last_check, ext_bundled, target_zmq, runs>>
sdistVars == <<files, cython, cmdclass, pyxfiles, sdist_warned, spc>>
vars == <<argvVars, confVars, cmdVars, sdistVars>>

----------------------------------------------------------------------------
(* Bounds *)

\* most command-line arguments after the script name
MaxArgs == 3
\* longest list among the values handed to merge
MaxListLen == 1
\* most invocations of setup.py over one build directory
MaxRuns == 2

----------------------------------------------------------------------------
(* Python list primitives *)

\* list.pop(i), 0 <= i < len(s)
ListPop(s, i) == SubSeq(s, 1, i) \o SubSeq(s, i + 2, Len(s))

\* list.insert(i, x): the index is clamped to [0, len(s)]
ListInsert(s, i, x) ==
    LET j  == IF i < 0 THEN i + Len(s) ELSE i
        k  == IF j < 0 THEN 0 ELSE IF j > Len(s) THEN Len(s) ELSE j
    IN  SubSeq(s, 1, k) \o <<x>> \o SubSeq(s, k + 1, Len(s))

----------------------------------------------------------------------------
(* Python values *)

PyDict(f) == [t |-> "dict", v |-> f]
PyList(s) == [t |-> "list", v |-> s]
PyStr(s)  == [t |-> "str", v |-> s]
PyBool(b) == [t |-> "bool", v |-> b]
PyInt(n)  == [t |-> "int", v |-> n]
PyNone    == [t |-> "none", v |-> 0]

\* a file that does not exist; an environment variable that is not set
NoFile == [t |-> "nofile", v |-> 0]
Unset  == [t |-> "unset", v |-> 0]
\* a dict key that is absent, when a dict is drawn key by key
Absent == [t |-> "absent", v |-> 0]

EmptyDict == PyDict([k \in {} |-> PyNone])

\* the dict holding the keys of `choice` that are not Absent
DictOf(choice) ==
    PyDict([k \in {x \in DOMAIN choice : choice[x] # Absent} |-> choice[k]])

\* bool(x)
Truthy(x) ==
    CASE x.t = "bool" -> x.v
      [] x.t = "int" -> x.v # 0
      [] x.t = "str" -> x.v # <<>>
      [] x.t = "list" -> x.v # <<>>
      [] x.t = "dict" -> DOMAIN x.v # {}
      [] OTHER -> FALSE

\* the variables outside SpecArgv
ArgvIdle ==
    /\ argv = <<>>
    /\ args = <<>>
    /\ idx = 0
    /\ configure_idx = -1
    /\ fetch_idx = -1
    /\ apc = "idle"

NoCheck == [built |-> FALSE, vers |-> <<>>, allow_legacy |-> FALSE,
            raised |-> FALSE, warnings |-> <<>>]

\* the variables outside SpecConfigure
CmdIdle ==
    /\ opt_zmq = PyNone
    /\ config = PyNone
    /\ run_cfg = PyNone
    /\ rpc = "idle"
    /\ calls = <<>>
    /\ last_check = NoCheck
    /\ ext_bundled = FALSE
    /\ target_zmq = <<>>
    /\ runs = 0

\* the variables outside SpecSDist
SDistIdle ==
    /\ files = {}
    /\ cython = FALSE
    /\ cmdclass = <<>>
    /\ pyxfiles = <<>>
    /\ sdist_warned = FALSE
    /\ spc = "idle"

\* the variables outside SpecConfig
ConfIdle ==
    /\ fn = "idle"
    /\ m_into = PyNone
    /\ m_old = PyNone
    /\ platform = "linux"
    /\ m_d = PyNone
    /\ conf_json = NoFile
    /\ setup_cfg = NoFile
    /\ environ = [ZMQ_PREFIX |-> Unset, ZMQ_DRAFT_API |-> Unset]
    /\ cwd = <<>>
    /\ prefix = <<>>
    /\ ret = PyNone
    /\ exc = ""
    /\ cpc = "idle"

----------------------------------------------------------------------------
(* Python str and os.path, on sequences of characters *)

Uppers == <<"A", "B", "C", "D", "E", "F", "G", "H", "I", "J", "K", "L", "M", "N", "O", "P", "Q", "R", "S", "T", "U", "V", "W", "X", "Y", "Z">>
Lowers == <<"a", "b", "c", "d", "e", "f", "g", "h", "i", "j", "k", "l", "m", "n", "o", "p", "q", "r", "s", "t", "u", "v", "w", "x", "y", "z">>
Digits == <<"0", "1", "2", "3", "4", "5", "6", "7", "8", "9">>

IndexIn(tab, c) == CHOOSE i \in DOMAIN tab : tab[i] = c
IsIn(tab, c) == \E i \in DOMAIN tab : tab[i] = c

\* str.lower()
StrLower(s) ==
    [i \in 1..Len(s) |-> IF IsIn(Uppers, s[i]) THEN Lowers[IndexIn(Uppers, s[i])] ELSE s[i]]

\* str.startswith(p)
StartsWith(s, p) == Len(s) >= Len(p) /\ SubSeq(s, 1, Len(p)) = p

\* int(s) of a str of decimal digits; anything else raises ValueError
IsDecimal(s) == s # <<>> /\ \A i \in DOMAIN s : IsIn(Digits, s[i])
RECURSIVE DecimalValue(_)
DecimalValue(s) ==
    IF s = <<>> THEN 0
    ELSE 10 * DecimalValue(SubSeq(s, 1, Len(s) - 1)) + (IndexIn(Digits, s[Len(s)]) - 1)

\* s.split('/')
RECURSIVE SplitSlash(_)
SplitSlash(s) ==
    IF \A i \in DOMAIN s : s[i] # "/" THEN <<s>>
    ELSE LET i == CHOOSE j \in DOMAIN s :
                      s[j] = "/" /\ \A k \in 1..(j - 1) : s[k] # "/"
         IN  <<SubSeq(s, 1, i - 1)>> \o SplitSlash(SubSeq(s, i + 1, Len(s)))

\* '/'.join(comps)
RECURSIVE JoinSlash(_)
JoinSlash(comps) ==
    IF comps = <<>> THEN <<>>
    ELSE IF Len(comps) = 1 THEN comps[1]
    ELSE comps[1] \o <<"/">> \o JoinSlash(Tail(comps))

DotDot == <<".", ".">>

\* the component loop of posixpath.normpath
RECURSIVE NormComps(_, _, _)
NormComps(comps, new, initial_slashes) ==
    IF comps = <<>> THEN new
    ELSE LET comp == Head(comps)
             rest == Tail(comps)
         IN  IF comp = <<>> \/ comp = <<".">> THEN NormComps(rest, new, initial_slashes)
             ELSE IF \/ comp # DotDot
                     \/ (initial_slashes = 0 /\ new = <<>>)
                     \/ (new # <<>> /\ new[Len(new)] = DotDot)
                  THEN NormComps(rest, Append(new, comp), initial_slashes)
             ELSE IF new # <<>>
                  THEN NormComps(rest, SubSeq(new, 1, Len(new) - 1), initial_slashes)
             ELSE NormComps(rest, new, initial_slashes)

RECURSIVE Slashes(_)
Slashes(n) == IF n = 0 THEN <<>> ELSE <<"/">> \o Slashes(n - 1)

\* posixpath.normpath
NormPath(path) ==
    IF path = <<>> THEN <<".">>
    ELSE LET initial_slashes ==
                 IF ~StartsWith(path, <<"/">>) THEN 0
                 ELSE IF StartsWith(path, <<"/", "/">>) /\ ~StartsWith(path, <<"/", "/", "/">>)
                      THEN 2 ELSE 1
             joined == JoinSlash(NormComps(SplitSlash(path), <<>>, initial_slashes))
             out == Slashes(initial_slashes) \o joined
         IN  IF out = <<>> THEN <<".">> ELSE out

\* posixpath.join(a, b)
PathJoin(a, b) ==
    IF StartsWith(b, <<"/">>) THEN b
    ELSE IF a = <<>> \/ a[Len(a)] = "/" THEN a \o b
    ELSE a \o <<"/">> \o b

\* posixpath.abspath(path) with the working directory dir
AbsPath(path, dir) ==
    NormPath(IF StartsWith(path, <<"/">>) THEN path ELSE PathJoin(dir, path))

----------------------------------------------------------------------------
(* setup.py:106-127, the --zmq= rewriting loop *)

ScriptName == "setup.py"
ZmqArgs == {"--zmq=/opt/zmq", "--zmq=bundled"}
ArgTokens == {"configure", "fetch_libzmq", "build"} \cup ZmqArgs

\* arg.startswith('--zmq=')
StartsWithZmq(arg) == arg \in ZmqArgs

RECURSIVE ArgLists(_)
ArgLists(n) ==
    IF n = 0 THEN {<<>>}
    ELSE LET shorter == ArgLists(n - 1)
         IN  shorter \cup {Append(s, t) : s \in {r \in shorter : Len(r) = n - 1},
                                          t \in ArgTokens}

\* lines 119-126 with the insert one slot early: the option lands before configure
RewriteArgvOffByOne(a, i, arg, cidx, fidx) ==
    LET popped == ListPop(a, i)
        c      == IF cidx < 0 THEN (IF fidx < 0 THEN 1 ELSE fidx + 1) ELSE cidx
        withC  == IF cidx < 0 THEN ListInsert(popped, c, "configure") ELSE popped
    IN  ListInsert(withC, c, arg)

\* lines 119-126: sys.argv after the pop and the inserts
RewriteArgv(a, i, arg, cidx, fidx) ==
    LET popped == ListPop(a, i)
        c      == IF cidx < 0 THEN (IF fidx < 0 THEN 1 ELSE fidx + 1) ELSE cidx
        withC  == IF cidx < 0 THEN ListInsert(popped, c, "configure") ELSE popped
    IN  ListInsert(withC, c + 1, arg)

\* lines 120-124: configure_idx after the rewrite
NewConfigureIdx(cidx, fidx) ==
    IF cidx < 0 THEN (IF fidx < 0 THEN 1 ELSE fidx + 1) ELSE cidx

ArgvInit ==
    /\ SDistIdle
    /\ argv \in {<<ScriptName>> \o s : s \in ArgLists(MaxArgs)}
    /\ args = argv
    /\ idx = 0
    /\ configure_idx = -1
    /\ fetch_idx = -1
    /\ apc = "loop"
    /\ ConfIdle
    /\ CmdIdle

\* one iteration over an argument that does not start with --zmq=
ArgvTrack ==
    /\ apc = "loop"
    /\ idx < Len(args)
    /\ LET arg == args[idx + 1] IN
        /\ ~StartsWithZmq(arg)
        /\ configure_idx' = IF arg = "configure" THEN idx ELSE configure_idx
        /\ fetch_idx' = IF arg # "configure" /\ arg = "fetch_libzmq"
                        THEN idx ELSE fetch_idx
    /\ idx' = idx + 1
    /\ UNCHANGED <<argv, args, apc, confVars, cmdVars, sdistVars>>

\* the iteration that finds --zmq=...: pop, insert, break
ArgvRewrite ==
    /\ apc = "loop"
    /\ idx < Len(args)
    /\ LET arg == args[idx + 1] IN
        /\ StartsWithZmq(arg)
        /\ argv' = RewriteArgv(argv, idx, arg, configure_idx, fetch_idx)
        /\ configure_idx' = NewConfigureIdx(configure_idx, fetch_idx)
    /\ apc' = "done"
    /\ UNCHANGED <<args, idx, fetch_idx, confVars, cmdVars, sdistVars>>

\* the loop runs off the end of args without a break
ArgvExhausted ==
    /\ apc = "loop"
    /\ idx = Len(args)
    /\ apc' = "done"
    /\ UNCHANGED <<argv, args, idx, configure_idx, fetch_idx, confVars, cmdVars, sdistVars>>

NextArgv == ArgvTrack \/ ArgvRewrite \/ ArgvExhausted

SpecArgv == ArgvInit /\ [][NextArgv]_vars

----------------------------------------------------------------------------
(* C1 *)

HasZmq(s) == \E i \in DOMAIN s : StartsWithZmq(s[i])
FirstZmqPos(s) == CHOOSE i \in DOMAIN s :
                      /\ StartsWithZmq(s[i])
                      /\ \A j \in 1..(i - 1) : ~StartsWithZmq(s[j])

----------------------------------------------------------------------------
(* buildutils/config.py *)

\* what a call yields: the value returned, or the exception raised (val is then
\* the state in which the call left the object it was updating)
Returns(val) == [val |-> val, exc |-> ""]
Raises(val, e) == [val |-> val, exc |-> e]

\* F applied to the value of e, e being evaluated once
Let1(e, F(_)) == CHOOSE out \in {F(x) : x \in {e}} : TRUE
\* statement sequencing: F applied to what r returns, unless r raises
Try(r, F(_)) == Let1(r, LAMBDA x : IF x.exc # "" THEN x ELSE F(x.val))

\* the order in which the keys of a dict are visited
KeyOrder == <<"zmq_prefix", "zmq_draft_api", "libzmq_extension", "no_libzmq_extension",
              "skip_check_zmq", "allow_legacy_libzmq", "bundle_msvcp", "build_ext",
              "bdist_egg", "win_ver", "have_sys_un_h", "include_dirs", "plat-name", "global",
              "a", "b", "x">>
KeysOf(d) == SelectSeq(KeyOrder, LAMBDA k : k \in DOMAIN d.v)

RECURSIVE merge(_, _)
RECURSIVE MergeKeys(_, _, _)

\* merge with the two arguments' roles exchanged in the scalar case: into wins
mergeIntoWins(into, d) ==
    IF into.t = "dict" THEN
        IF d.t # "dict" THEN Raises(into, "AttributeError")
        ELSE MergeKeys(into, d, KeysOf(d))
    ELSE IF into.t = "list" THEN
        IF d.t = "list" THEN Returns(PyList(into.v \o d.v))
        ELSE Raises(into, "TypeError")
    ELSE Returns(into)

\* merge(into, d), lines 130-145
merge(into, d) ==
    IF into.t = "dict" THEN
        IF d.t # "dict" THEN Raises(into, "AttributeError")
        ELSE MergeKeys(into, d, KeysOf(d))
    ELSE IF into.t = "list" THEN
        IF d.t = "list" THEN Returns(PyList(into.v \o d.v))
        ELSE Raises(into, "TypeError")
    ELSE Returns(d)

\* the loop `for key in d.keys()` of merge over the keys ks still to visit
MergeKeys(into, d, ks) ==
    IF ks = <<>> THEN Returns(into)
    ELSE LET key == Head(ks) IN
         IF key \notin DOMAIN into.v
         THEN MergeKeys(PyDict([k \in DOMAIN into.v \cup {key} |->
                                   IF k = key THEN d.v[key] ELSE into.v[k]]),
                        d, Tail(ks))
         ELSE Let1(merge(into.v[key], d.v[key]), LAMBDA r :
                  IF r.exc # ""
                  THEN Raises(PyDict([into.v EXCEPT ![key] = r.val]), r.exc)
                  ELSE MergeKeys(PyDict([into.v EXCEPT ![key] = r.val]), d, Tail(ks)))

\* load_config('config', conf_base), lines 28-39: {} when the file is missing or
\* cannot be parsed
Corrupt == [t |-> "corrupt", v |-> 0]
load_config(file) == IF file.t = "dict" THEN file ELSE EmptyDict

\* get_env_args(), lines 56-70
get_env_args(env) ==
    LET zmq == env.ZMQ_PREFIX
        draft_api == env.ZMQ_DRAFT_API
        s1 == IF Truthy(zmq) THEN ("zmq_prefix" :> zmq) ELSE [k \in {} |-> PyNone]
    IN  IF ~Truthy(draft_api) THEN Returns(PyDict(s1))
        ELSE IF ~IsDecimal(draft_api.v) THEN Raises(PyDict(s1), "ValueError")
        ELSE Returns(PyDict(s1 @@ ("zmq_draft_api" :> PyInt(DecimalValue(draft_api.v)))))

\* eval(s) of an option value of setup.cfg
PyEval(s) ==
    IF s.v = <<"T", "r", "u", "e">> THEN Returns(PyBool(TRUE))
    ELSE IF s.v = <<"F", "a", "l", "s", "e">> THEN Returns(PyBool(FALSE))
    ELSE IF s.v = <<"N", "o", "n", "e">> THEN Returns(PyNone)
    ELSE IF IsDecimal(s.v) /\ (Len(s.v) = 1 \/ s.v[1] # "0")
         THEN Returns(PyInt(DecimalValue(s.v)))
    ELSE Raises(s, "NameError")

BooleanKeys == {"libzmq_extension", "bundle_libzmq_dylib", "no_libzmq_extension",
                "have_sys_un_h", "skip_check_zmq", "bundle_msvcp"}

\* get_cfg_args(), lines 84-108; file is setup.cfg as cfg2dict returns it
get_cfg_args(file) ==
    IF file = NoFile THEN Returns(EmptyDict)
    ELSE LET g0 == IF "global" \in DOMAIN file.v THEN file.v["global"].v
                   ELSE [k \in {} |-> PyNone]
             bad == {k \in DOMAIN g0 \cap BooleanKeys : PyEval(g0[k]).exc # ""}
             g == [k \in DOMAIN g0 |->
                      IF k \in BooleanKeys THEN PyEval(g0[k]).val ELSE g0[k]]
             sections == DOMAIN file.v \ {"global"}
         IN  IF bad # {}
             THEN Raises(file, PyEval(g0[CHOOSE k \in bad : TRUE]).exc)
             ELSE Returns(PyDict([k \in sections \cup DOMAIN g |->
                                     IF k \in DOMAIN g THEN g[k] ELSE file.v[k]]))

\* config_from_prefix comparing prefix itself, not prefix.lower()
config_from_prefix_CaseSensitive(p, dir) ==
    IF p \in {<<"d", "e", "f", "a", "u", "l", "t">>, <<"a", "u", "t", "o">>, <<>>}
    THEN PyDict([zmq_prefix |-> PyStr(<<>>),
                 libzmq_extension |-> PyBool(FALSE),
                 no_libzmq_extension |-> PyBool(FALSE)])
    ELSE IF p \in {<<"b", "u", "n", "d", "l", "e", "d">>, <<"e", "x", "t", "e", "n", "s", "i", "o", "n">>}
    THEN PyDict([zmq_prefix |-> PyStr(<<>>),
                 libzmq_extension |-> PyBool(TRUE),
                 no_libzmq_extension |-> PyBool(FALSE)])
    ELSE PyDict([zmq_prefix |-> PyStr(AbsPath(p, dir)),
                 libzmq_extension |-> PyBool(FALSE),
                 no_libzmq_extension |-> PyBool(TRUE),
                 allow_legacy_libzmq |-> PyBool(TRUE)])

\* config_from_prefix(prefix), lines 111-127
config_from_prefix(p, dir) ==
    IF StrLower(p) \in {<<"d", "e", "f", "a", "u", "l", "t">>, <<"a", "u", "t", "o">>, <<>>}
    THEN PyDict([zmq_prefix |-> PyStr(<<>>),
                 libzmq_extension |-> PyBool(FALSE),
                 no_libzmq_extension |-> PyBool(FALSE)])
    ELSE IF StrLower(p) \in {<<"b", "u", "n", "d", "l", "e", "d">>, <<"e", "x", "t", "e", "n", "s", "i", "o", "n">>}
    THEN PyDict([zmq_prefix |-> PyStr(<<>>),
                 libzmq_extension |-> PyBool(TRUE),
                 no_libzmq_extension |-> PyBool(FALSE)])
    ELSE PyDict([zmq_prefix |-> PyStr(AbsPath(p, dir)),
                 libzmq_extension |-> PyBool(FALSE),
                 no_libzmq_extension |-> PyBool(TRUE),
                 allow_legacy_libzmq |-> PyBool(TRUE)])

\* sys.version_info >= (3, 9), line 168
PythonAtLeast39 == TRUE

\* the built-in defaults of discover_settings, lines 150-174
DefaultSettings(plat) ==
    LET base == [zmq_prefix |-> PyStr(<<>>),
                 zmq_draft_api |-> PyBool(FALSE),
                 libzmq_extension |-> PyBool(FALSE),
                 no_libzmq_extension |-> PyBool(FALSE),
                 skip_check_zmq |-> PyBool(FALSE),
                 allow_legacy_libzmq |-> PyBool(FALSE),
                 bundle_msvcp |-> PyNone,
                 build_ext |-> EmptyDict,
                 bdist_egg |-> EmptyDict,
                 win_ver |-> PyNone]
    IN  IF plat = "win32"
        THEN PyDict([k \in DOMAIN base \cup {"have_sys_un_h"} |->
                        IF k = "have_sys_un_h" THEN PyBool(FALSE)
                        ELSE IF k = "win_ver"
                             THEN (IF PythonAtLeast39 THEN PyStr(<<"0", "x", "0", "6", "0", "2">>)
                                   ELSE PyStr(<<"0", "x", "0", "6", "0", "1">>))
                        ELSE base[k]])
        ELSE PyDict(base)

\* discover_settings with setup.cfg merged before config.json: the saved config wins
discover_settings_JsonLast(plat, json, cfgfile, env) ==
    Try(get_cfg_args(cfgfile), LAMBDA cfgargs :
    Try(merge(DefaultSettings(plat), cfgargs), LAMBDA s1 :
    Try(merge(s1, load_config(json)), LAMBDA s2 :
    Try(get_env_args(env), LAMBDA envargs :
    merge(s2, envargs)))))

\* discover_settings(conf_base), lines 148-182
discover_settings(plat, json, cfgfile, env) ==
    Try(merge(DefaultSettings(plat), load_config(json)), LAMBDA s1 :
    Try(get_cfg_args(cfgfile), LAMBDA cfgargs :
    Try(merge(s1, cfgargs), LAMBDA s2 :
    Try(get_env_args(env), LAMBDA envargs :
    merge(s2, envargs)))))

----------------------------------------------------------------------------
(* One call of merge, discover_settings or config_from_prefix *)

\* the values merge is called on: ints, lists of ints, dicts of those under "x"
MergeScalars == {PyInt(1), PyInt(2)}
RECURSIVE IntLists(_)
IntLists(n) ==
    IF n = 0 THEN {<<>>}
    ELSE LET shorter == IntLists(n - 1)
         IN  shorter \cup {Append(l, e) : l \in {r \in shorter : Len(r) = n - 1},
                                          e \in MergeScalars}
MergeLeaves == MergeScalars \cup {PyList(l) : l \in IntLists(MaxListLen)}
MergeInner == {DictOf("x" :> c) : c \in MergeLeaves \cup {Absent}}
MergeDicts ==
    {DictOf(("a" :> ca) @@ ("b" :> cb)) :
        ca \in MergeLeaves \cup MergeInner \cup {Absent},
        cb \in MergeScalars \cup {Absent}}

\* config.json as a previous run may have saved it
JsonFiles ==
    {NoFile, Corrupt} \cup
    {DictOf(("zmq_prefix" :> zp) @@ ("zmq_draft_api" :> da)
            @@ ("libzmq_extension" :> le) @@ ("no_libzmq_extension" :> nl)) :
        zp \in {Absent, PyStr(<<"/", "j", "s", "o", "n">>)},
        da \in {Absent, PyBool(TRUE)},
        le \in {Absent, PyBool(TRUE)},
        nl \in {Absent, PyBool(FALSE)}}

\* setup.cfg: a [global] section and possibly a [build_ext] section
CfgFiles ==
    {NoFile} \cup
    {DictOf(("global" :> DictOf(("zmq_prefix" :> zp) @@ ("zmq_draft_api" :> da)
                                @@ ("libzmq_extension" :> le)
                                @@ ("no_libzmq_extension" :> nl)))
            @@ ("build_ext" :> be)) :
        zp \in {Absent, PyStr(<<"/", "c", "f", "g">>)},
        da \in {Absent, PyStr(<<"1">>)},
        le \in {Absent, PyStr(<<"F", "a", "l", "s", "e">>)},
        nl \in {Absent, PyStr(<<"T", "r", "u", "e">>)},
        be \in {Absent, DictOf("include_dirs" :> PyStr(<<"/", "i", "n", "c">>))}}

Environs ==
    [ZMQ_PREFIX : {Unset, PyStr(<<>>), PyStr(<<"/", "e", "n", "v">>)},
     ZMQ_DRAFT_API : {Unset, PyStr(<<>>), PyStr(<<"1">>), PyStr(<<"0">>), PyStr(<<"x">>)}]

Platforms == {"linux", "win32"}

Prefixes == {<<>>,
             <<"a", "u", "t", "o">>,
             <<"A", "U", "T", "O">>,
             <<"D", "e", "f", "a", "u", "l", "t">>,
             <<"d", "e", "f", "a", "u", "l", "t">>,
             <<"b", "u", "n", "d", "l", "e", "d">>,
             <<"B", "u", "n", "d", "l", "e", "d">>,
             <<"E", "X", "T", "E", "N", "S", "I", "O", "N">>,
             <<"e", "x", "t", "e", "n", "s", "i", "o", "n">>,
             <<"/", "o", "p", "t", "/", "z", "m", "q">>,
             <<"/", "o", "p", "t", "/", "z", "m", "q", "/">>,
             <<"z", "m", "q">>,
             <<".", ".", "/", "z", "m", "q">>,
             <<".", "/", "z", "m", "q">>,
             <<"a", "u", "t", "o", "x">>,
             <<"/", "A", "u", "t", "o">>}
Cwds == {<<"/", "w">>, <<"/", "w", "/", "d">>}

ConfInit ==
    /\ SDistIdle
    /\ ArgvIdle
    /\ CmdIdle
    /\ cpc = "call"
    /\ ret = PyNone
    /\ exc = ""
    /\ \/ /\ fn = "merge"
          /\ m_into \in MergeDicts
          /\ m_d \in MergeDicts
          /\ m_old = m_into
          /\ platform = "linux"
          /\ conf_json = NoFile
          /\ setup_cfg = NoFile
          /\ environ = [ZMQ_PREFIX |-> Unset, ZMQ_DRAFT_API |-> Unset]
          /\ cwd = <<>>
          /\ prefix = <<>>
       \/ /\ fn = "discover_settings"
          /\ platform \in Platforms
          /\ conf_json \in JsonFiles
          /\ setup_cfg \in CfgFiles
          /\ environ \in Environs
          /\ m_into = PyNone
          /\ m_old = PyNone
          /\ m_d = PyNone
          /\ cwd = <<>>
          /\ prefix = <<>>
       \/ /\ fn = "config_from_prefix"
          /\ prefix \in Prefixes
          /\ cwd \in Cwds
          /\ platform = "linux"
          /\ m_into = PyNone
          /\ m_old = PyNone
          /\ m_d = PyNone
          /\ conf_json = NoFile
          /\ setup_cfg = NoFile
          /\ environ = [ZMQ_PREFIX |-> Unset, ZMQ_DRAFT_API |-> Unset]

\* merge(m_into, m_d): m_into is updated in place and returned
CallMerge ==
    /\ fn = "merge"
    /\ cpc = "call"
    /\ \E r \in {merge(m_into, m_d)} :
        /\ m_into' = r.val
        /\ exc' = r.exc
        /\ ret' = IF r.exc = "" THEN r.val ELSE PyNone
        /\ cpc' = IF r.exc = "" THEN "returned" ELSE "raised"
    /\ UNCHANGED <<fn, m_old, platform, m_d, conf_json, setup_cfg, environ, cwd, prefix>>
    /\ UNCHANGED <<argvVars, cmdVars, sdistVars>>

CallDiscoverSettings ==
    /\ fn = "discover_settings"
    /\ cpc = "call"
    /\ \E r \in {discover_settings(platform, conf_json, setup_cfg, environ)} :
        /\ exc' = r.exc
        /\ ret' = IF r.exc = "" THEN r.val ELSE PyNone
        /\ cpc' = IF r.exc = "" THEN "returned" ELSE "raised"
    /\ UNCHANGED <<fn, m_into, m_old, platform, m_d, conf_json, setup_cfg, environ,
                   cwd, prefix>>
    /\ UNCHANGED <<argvVars, cmdVars, sdistVars>>

CallConfigFromPrefix ==
    /\ fn = "config_from_prefix"
    /\ cpc = "call"
    /\ ret' = config_from_prefix(prefix, cwd)
    /\ cpc' = "returned"
    /\ UNCHANGED <<fn, m_into, m_old, platform, m_d, conf_json, setup_cfg, environ,
                   cwd, prefix, exc>>
    /\ UNCHANGED <<argvVars, cmdVars, sdistVars>>

NextConfig == CallMerge \/ CallDiscoverSettings \/ CallConfigFromPrefix

SpecConfig == ConfInit /\ [][NextConfig]_vars

----------------------------------------------------------------------------
(* C4 *)

ScalarKeys == {"zmq_prefix", "zmq_draft_api", "libzmq_extension", "no_libzmq_extension",
               "skip_check_zmq", "allow_legacy_libzmq", "bundle_msvcp", "win_ver"}

EnvDefines(k) ==
    \/ k = "zmq_prefix" /\ Truthy(environ.ZMQ_PREFIX)
    \/ k = "zmq_draft_api" /\ Truthy(environ.ZMQ_DRAFT_API)
EnvValue(k) ==
    IF k = "zmq_prefix" THEN environ.ZMQ_PREFIX
    ELSE PyInt(DecimalValue(environ.ZMQ_DRAFT_API.v))
CfgDefines(k) ==
    /\ setup_cfg # NoFile
    /\ "global" \in DOMAIN setup_cfg.v
    /\ k \in DOMAIN setup_cfg.v["global"].v
CfgValue(k) ==
    LET raw == setup_cfg.v["global"].v[k]
    IN  IF k \in BooleanKeys THEN PyBool(raw.v = <<"T", "r", "u", "e">>) ELSE raw
JsonDefines(k) == conf_json.t = "dict" /\ k \in DOMAIN conf_json.v

\* C4: when discover_settings returns, every scalar setting has the value of the
\* highest-priority source that defines it: the environment (a non-empty
\* ZMQ_PREFIX or ZMQ_DRAFT_API), then setup.cfg, then the saved config.json,
\* then the built-in default.
C4_SettingsPriority ==
    (fn = "discover_settings" /\ cpc = "returned") =>
        \A k \in ScalarKeys :
            ret.v[k] = IF EnvDefines(k) THEN EnvValue(k)
                       ELSE IF CfgDefines(k) THEN CfgValue(k)
                       ELSE IF JsonDefines(k) THEN conf_json.v[k]
                       ELSE DefaultSettings(platform).v[k]

\* all three sources define zmq_prefix, and setup.cfg and config.json both
\* define a key the environment does not
C4_Witness ==
    /\ fn = "discover_settings"
    /\ cpc = "returned"
    /\ EnvDefines("zmq_prefix") /\ CfgDefines("zmq_prefix") /\ JsonDefines("zmq_prefix")
    /\ CfgDefines("libzmq_extension") /\ JsonDefines("libzmq_extension")
    /\ ~CfgDefines("no_libzmq_extension") /\ JsonDefines("no_libzmq_extension")

----------------------------------------------------------------------------
(* C5 *)

\* p is w up to the case of its letters (w is lower case)
CaseVariantOf(p, w) ==
    /\ Len(p) = Len(w)
    /\ \A i \in DOMAIN w :
           \/ p[i] = w[i]
           \/ IsIn(Lowers, w[i]) /\ p[i] = Uppers[IndexIn(Lowers, w[i])]

IsAutoWord(p) ==
    \/ CaseVariantOf(p, <<"d", "e", "f", "a", "u", "l", "t">>)
    \/ CaseVariantOf(p, <<"a", "u", "t", "o">>)
    \/ p = <<>>
IsBundledWord(p) ==
    \/ CaseVariantOf(p, <<"b", "u", "n", "d", "l", "e", "d">>)
    \/ CaseVariantOf(p, <<"e", "x", "t", "e", "n", "s", "i", "o", "n">>)

\* a path none of whose components is empty, '.' or '..'
CleanRelative(p) ==
    /\ p # <<>>
    /\ \A i \in DOMAIN SplitSlash(p) :
           SplitSlash(p)[i] \notin {<<>>, <<".">>, DotDot}

\* C5: config_from_prefix maps 'default', 'auto' and '' (in any case) to an empty
\* prefix with both flags False, 'bundled' and 'extension' (in any case) to an
\* empty prefix with libzmq_extension True, and anything else to the absolute
\* path with no_libzmq_extension and allow_legacy_libzmq True; the two flags are
\* never both True and allow_legacy_libzmq is set only for a path.
C5_ConfigFromPrefix ==
    (fn = "config_from_prefix" /\ cpc = "returned") =>
        LET r == ret.v
            path == r.zmq_prefix.v
        IN  /\ IsAutoWord(prefix) =>
                ret = PyDict([zmq_prefix |-> PyStr(<<>>),
                              libzmq_extension |-> PyBool(FALSE),
                              no_libzmq_extension |-> PyBool(FALSE)])
            /\ IsBundledWord(prefix) =>
                ret = PyDict([zmq_prefix |-> PyStr(<<>>),
                              libzmq_extension |-> PyBool(TRUE),
                              no_libzmq_extension |-> PyBool(FALSE)])
            /\ (~IsAutoWord(prefix) /\ ~IsBundledWord(prefix)) =>
                /\ DOMAIN r = {"zmq_prefix", "libzmq_extension", "no_libzmq_extension",
                               "allow_legacy_libzmq"}
                /\ r.libzmq_extension = PyBool(FALSE)
                /\ r.no_libzmq_extension = PyBool(TRUE)
                /\ r.allow_legacy_libzmq = PyBool(TRUE)
                /\ r.zmq_prefix.t = "str"
                /\ path[1] = "/"
                /\ (prefix[1] = "/" /\ CleanRelative(Tail(prefix))) => path = prefix
                /\ CleanRelative(prefix) => path = cwd \o <<"/">> \o prefix
            /\ ~(r.libzmq_extension.v /\ r.no_libzmq_extension.v)
            /\ ("allow_legacy_libzmq" \in DOMAIN r) <=>
                   (~IsAutoWord(prefix) /\ ~IsBundledWord(prefix))

\* an upper-case spelling of a keyword, and a relative path made absolute
C5_Witness ==
    /\ fn = "config_from_prefix"
    /\ cpc = "returned"
    /\ \/ prefix = <<"E", "X", "T", "E", "N", "S", "I", "O", "N">> /\ ret.v.libzmq_extension.v
       \/ prefix = <<".", ".", "/", "z", "m", "q">> /\ cwd = <<"/", "w", "/", "d">>
            /\ ret.v.zmq_prefix.v = <<"/", "w", "/", "z", "m", "q">>

----------------------------------------------------------------------------
(* C6 *)

\* C6 as stated: new is old with, for every key k of d, new[k] = d[k] unless both
\* values are dicts, which are merged by the same rule; the other keys are kept.
RECURSIVE MergedAsStated(_, _, _)
MergedAsStated(old, d, new) ==
    /\ new.t = "dict"
    /\ DOMAIN new.v = DOMAIN old.v \cup DOMAIN d.v
    /\ \A k \in DOMAIN d.v :
           IF k \in DOMAIN old.v /\ old.v[k].t = "dict" /\ d.v[k].t = "dict"
           THEN MergedAsStated(old.v[k], d.v[k], new.v[k])
           ELSE new.v[k] = d.v[k]
    /\ \A k \in DOMAIN old.v \ DOMAIN d.v : new.v[k] = old.v[k]

\* the same, with a list in `into` extended by the list in d
RECURSIVE MergedWithLists(_, _, _)
MergedWithLists(old, d, new) ==
    /\ new.t = "dict"
    /\ DOMAIN new.v = DOMAIN old.v \cup DOMAIN d.v
    /\ \A k \in DOMAIN d.v :
           IF k \notin DOMAIN old.v THEN new.v[k] = d.v[k]
           ELSE IF old.v[k].t = "dict"
                THEN d.v[k].t = "dict" /\ MergedWithLists(old.v[k], d.v[k], new.v[k])
           ELSE IF old.v[k].t = "list"
                THEN d.v[k].t = "list" /\ new.v[k] = PyList(old.v[k].v \o d.v[k].v)
           ELSE new.v[k] = d.v[k]
    /\ \A k \in DOMAIN old.v \ DOMAIN d.v : new.v[k] = old.v[k]

\* merge(old, d) has no dict of old against a non-dict of d, and no list of old
\* against a non-list of d
RECURSIVE Mergeable(_, _)
Mergeable(old, d) ==
    \A k \in DOMAIN old.v \cap DOMAIN d.v :
        /\ old.v[k].t = "dict" => (d.v[k].t = "dict" /\ Mergeable(old.v[k], d.v[k]))
        /\ old.v[k].t = "list" => d.v[k].t = "list"

\* C6 as stated: whenever merge returns, into is the object returned and for
\* every key k of d, into[k] equals d[k] unless both values are dicts.
C6_MergeAsStated ==
    (fn = "merge" /\ cpc = "returned") =>
        (ret = m_into /\ MergedAsStated(m_old, m_d, m_into))

\* C6 amended: merge returns exactly when no dict of into meets a non-dict of d and
\* no list of into meets a non-list of d; it then returns into, updated so that
\* for every key k of d, into[k] is d[k] if k was absent or into[k] was neither a
\* dict nor a list, the recursive merge if both are dicts, and into[k] + d[k] if
\* into[k] was a list; keys of into absent from d keep their values.
C6_MergeWithLists ==
    (fn = "merge" /\ cpc # "call") =>
        /\ (cpc = "returned") <=> Mergeable(m_old, m_d)
        /\ cpc = "returned" => (ret = m_into /\ MergedWithLists(m_old, m_d, m_into))

\* a call that overwrites a scalar, extends a list nested in a dict and keeps a key
C6_Witness ==
    /\ fn = "merge"
    /\ cpc = "returned"
    /\ m_old = PyDict(("a" :> PyDict("x" :> PyList(<<PyInt(1)>>))) @@ ("b" :> PyInt(1)))
    /\ m_d = PyDict("a" :> PyDict("x" :> PyList(<<PyInt(2)>>)))
    /\ m_into = PyDict(("a" :> PyDict("x" :> PyList(<<PyInt(1), PyInt(2)>>)))
                       @@ ("b" :> PyInt(1)))

----------------------------------------------------------------------------
(* setup.py: the configure command *)

min_legacy_zmq == <<2, 1, 4>>
min_good_zmq == <<3, 2>>
dev_zmq(target) == <<target[1], target[2] + 1, 0>>

\* a < b on tuples of ints
RECURSIVE TupleLess(_, _)
TupleLess(a, b) ==
    IF a = <<>> THEN b # <<>>
    ELSE IF b = <<>> THEN FALSE
    ELSE IF a[1] # b[1] THEN a[1] < b[1]
    ELSE TupleLess(Tail(a), Tail(b))

\* check_zmq_version with the three warnings tested one after the other (if, if,
\* if) instead of as one if / elif chain
check_zmq_version_NoElif(vers, allow_legacy, target) ==
    LET min_zmq == IF allow_legacy THEN min_legacy_zmq ELSE min_good_zmq
    IN  IF TupleLess(vers, min_zmq)
        THEN [raised |-> TRUE, warnings |-> <<>>]
        ELSE [raised |-> FALSE,
              warnings |->
                  (IF TupleLess(vers, min_good_zmq) THEN <<"legacy">> ELSE <<>>)
                  \o (IF TupleLess(vers, target) THEN <<"older", "older">> ELSE <<>>)
                  \o (IF ~TupleLess(vers, dev_zmq(target)) THEN <<"newer">> ELSE <<>>)]

\* check_zmq_version, lines 491-534, for a detected version: whether it raises
\* LibZMQVersionError, and the warnings it gives (one entry per call of warn)
check_zmq_version(vers, allow_legacy, target) ==
    LET min_zmq == IF allow_legacy THEN min_legacy_zmq ELSE min_good_zmq
    IN  IF TupleLess(vers, min_zmq)
        THEN [raised |-> TRUE, warnings |-> <<>>]
        ELSE [raised |-> FALSE,
              warnings |->
                  IF TupleLess(vers, min_good_zmq) THEN <<"legacy">>
                  ELSE IF TupleLess(vers, target) THEN <<"older", "older">>
                  ELSE IF ~TupleLess(vers, dev_zmq(target)) THEN <<"newer">>
                  ELSE <<>>]

\* what test_build may do: raise (no compiler, no libzmq), or detect a version
Versions == {<<2, 1, 3>>, <<2, 1, 4>>, <<3, 1, 9>>, <<3, 2, 0>>,
             <<4, 3, 3>>, <<4, 3, 4>>, <<4, 4, 0>>}
Outcomes == {[built |-> FALSE, vers |-> <<>>]} \cup
            {[built |-> TRUE, vers |-> v] : v \in Versions}
BundledVersions == {<<4, 3, 4>>, <<4, 2, 5>>}

UsrLocal == <<"/", "u", "s", "r", "/", "l", "o", "c", "a", "l">>
PlatformName(plat) == IF plat = "win32" THEN <<"w", "i", "n", "3", "2">> ELSE <<"l", "i", "n", "u", "x">>

\* Configure.cross_compiling, lines 479-481
cross_compiling(cfg, plat) ==
    LET be == cfg.v["bdist_egg"].v
    IN  "plat-name" \in DOMAIN be /\ be["plat-name"].v # PlatformName(plat)

\* the have_sys_un_h part of init_settings_from_config, lines 399-416: the key is
\* set, and the config saved, when the config does not have it yet
init_settings_from_config(cfg, has_un) ==
    IF "have_sys_un_h" \in DOMAIN cfg.v THEN [cfg |-> cfg, saved |-> FALSE]
    ELSE [cfg |-> PyDict([k \in DOMAIN cfg.v \cup {"have_sys_un_h"} |->
                             IF k = "have_sys_un_h" THEN PyBool(has_un) ELSE cfg.v[k]]),
          saved |-> TRUE]

\* self.zmq: the --zmq option, else ZMQ_PREFIX, else None (lines 367, 357)
SelfZmq(opt, env) ==
    IF opt # PyNone THEN opt
    ELSE IF Truthy(env.ZMQ_PREFIX) THEN env.ZMQ_PREFIX
    ELSE PyNone

\* finalize_options, lines 374-376: the config of the command
ConfigureConfig(plat, json, cfgfile, env, opt, dir) ==
    Try(discover_settings(plat, json, cfgfile, env), LAMBDA settings :
        IF SelfZmq(opt, env) = PyNone THEN Returns(settings)
        ELSE merge(settings, config_from_prefix(SelfZmq(opt, env).v, dir)))

Call(op, pfx, ok) == [op |-> op, prefix |-> pfx, ok |-> ok]

\* the /usr/local retry taken after every failed first check
TryUsrLocalAlways(cfg, plat) == TRUE

\* line 786: `if not zmq_prefix and not sys.platform.startswith('win')`
TryUsrLocal(cfg, plat) == ~Truthy(cfg.v["zmq_prefix"]) /\ plat # "win32"

\* what one invocation of `setup.py configure` is given
RunCfgFiles ==
    {NoFile} \cup
    {DictOf(("global" :> DictOf(("no_libzmq_extension" :> nl) @@ ("skip_check_zmq" :> sk)))
            @@ ("bdist_egg" :> be)) :
        nl \in {Absent, PyStr(<<"T", "r", "u", "e">>)},
        sk \in {Absent, PyStr(<<"T", "r", "u", "e">>)},
        be \in {Absent, DictOf("plat-name" :> PyStr(<<"w", "i", "n", "3", "2">>))}}
RunEnvirons ==
    [ZMQ_PREFIX : {Unset, PyStr(<<"/", "o", "p", "t", "/", "z", "m", "q">>)}, ZMQ_DRAFT_API : {Unset}]
RunOptions == {PyNone, PyStr(<<"b", "u", "n", "d", "l", "e", "d">>), PyStr(<<"/", "o", "p", "t", "/", "z", "m", "q">>)}

Invocation ==
    /\ setup_cfg' \in RunCfgFiles
    /\ environ' \in RunEnvirons
    /\ opt_zmq' \in RunOptions
    /\ rpc' = "finalize"
    /\ config' = PyNone
    /\ run_cfg' = PyNone
    /\ calls' = <<>>
    /\ last_check' = NoCheck
    /\ ext_bundled' = FALSE

ConfigureInit ==
    /\ SDistIdle
    /\ ArgvIdle
    /\ fn = "configure"
    /\ m_into = PyNone
    /\ m_old = PyNone
    /\ m_d = PyNone
    /\ prefix = <<>>
    /\ ret = PyNone
    /\ exc = ""
    /\ cpc = "idle"
    /\ cwd = <<"/", "w">>
    /\ platform \in Platforms
    /\ target_zmq \in BundledVersions
    /\ conf_json = NoFile
    /\ setup_cfg \in RunCfgFiles
    /\ environ \in RunEnvirons
    /\ opt_zmq \in RunOptions
    /\ rpc = "finalize"
    /\ config = PyNone
    /\ run_cfg = PyNone
    /\ calls = <<>>
    /\ last_check = NoCheck
    /\ ext_bundled = FALSE
    /\ runs = 1

cmdFixed == <<argvVars, sdistVars, fn, m_into, m_old, m_d, prefix, ret, exc, cpc, cwd, platform,
              target_zmq>>

\* Configure.finalize_options, lines 370-377
ConfigureFinalize ==
    /\ rpc = "finalize"
    /\ \E c \in {ConfigureConfig(platform, conf_json, setup_cfg, environ, opt_zmq, cwd)} :
        IF c.exc # ""
        THEN /\ rpc' = "raised"
             /\ UNCHANGED <<config, run_cfg, conf_json>>
        ELSE \E has_un \in BOOLEAN :
                \E init \in {init_settings_from_config(c.val, has_un)} :
                    /\ config' = init.cfg
                    /\ run_cfg' = init.cfg
                    /\ conf_json' = IF init.saved THEN init.cfg ELSE conf_json
                    /\ rpc' = "run"
    /\ UNCHANGED <<setup_cfg, environ, opt_zmq, calls, last_check, ext_bundled, runs>>
    /\ UNCHANGED cmdFixed

\* bundle_libzmq_extension, lines 544-675, then finish_run: fetch_libzmq may fail;
\* otherwise zmq.libzmq is registered and the config, with libzmq_extension set,
\* is saved
Bundle(before) ==
    \E fetched \in BOOLEAN :
        /\ calls' = before \o <<Call("bundle_libzmq_extension", <<>>, fetched)>>
        /\ IF fetched
           THEN /\ ext_bundled' = TRUE
                /\ config' = PyDict([config.v EXCEPT !["libzmq_extension"] = PyBool(TRUE)])
                /\ conf_json' = config'
                /\ rpc' = "done"
           ELSE /\ rpc' = "raised"
                /\ UNCHANGED <<ext_bundled, config, conf_json>>

\* Configure.run, lines 749-752: the config asks for the bundled libzmq
RunBundleConfigured ==
    /\ rpc = "run"
    /\ Truthy(config.v["libzmq_extension"])
    /\ Bundle(calls)
    /\ UNCHANGED <<setup_cfg, environ, opt_zmq, run_cfg, last_check, runs>>
    /\ UNCHANGED cmdFixed

\* Configure.run, lines 756-759: the version check is skipped
RunSkipCheck ==
    /\ rpc = "run"
    /\ ~Truthy(config.v["libzmq_extension"])
    /\ Truthy(config.v["skip_check_zmq"]) \/ cross_compiling(config, platform)
    /\ conf_json' = config
    /\ rpc' = "done"
    /\ UNCHANGED <<setup_cfg, environ, opt_zmq, config, run_cfg, calls, last_check,
                   ext_bundled, runs>>
    /\ UNCHANGED cmdFixed

\* Configure.run, lines 764-771: no default on Windows
RunWindowsFallback ==
    /\ rpc = "run"
    /\ ~Truthy(config.v["libzmq_extension"])
    /\ ~(Truthy(config.v["skip_check_zmq"]) \/ cross_compiling(config, platform))
    /\ platform = "win32"
    /\ ~Truthy(config.v["no_libzmq_extension"])
    /\ ~Truthy(config.v["zmq_prefix"])
    /\ Bundle(calls \o <<Call("fallback_on_bundled", <<>>, TRUE)>>)
    /\ UNCHANGED <<setup_cfg, environ, opt_zmq, run_cfg, last_check, runs>>
    /\ UNCHANGED cmdFixed

\* one try of check_zmq_version, lines 483-542, inside the try of Configure.run:
\* "ok", "failed" (an exception the run catches) or "exit" (fatal on Windows)
CheckResult(out, dll_exists) ==
    LET chk == check_zmq_version(out.vers, Truthy(config.v["allow_legacy_libzmq"]),
                                 target_zmq)
    IN  IF ~out.built THEN "failed"
        ELSE IF chk.raised THEN "failed"
        ELSE IF platform = "win32" /\ ~Truthy(config.v["zmq_prefix"]) /\ ~dll_exists
             THEN "exit"
        ELSE "ok"

CheckRecord(out) ==
    IF ~out.built
    THEN [built |-> FALSE, vers |-> <<>>,
          allow_legacy |-> Truthy(config.v["allow_legacy_libzmq"]),
          raised |-> FALSE, warnings |-> <<>>]
    ELSE LET chk == check_zmq_version(out.vers, Truthy(config.v["allow_legacy_libzmq"]),
                                      target_zmq)
         IN  [built |-> TRUE, vers |-> out.vers,
              allow_legacy |-> Truthy(config.v["allow_legacy_libzmq"]),
              raised |-> chk.raised, warnings |-> chk.warnings]

\* Configure.run, lines 773-790: the first check, and on failure without a prefix
\* off Windows the switch to /usr/local
RunCheckFirst ==
    /\ rpc = "run"
    /\ ~Truthy(config.v["libzmq_extension"])
    /\ ~(Truthy(config.v["skip_check_zmq"]) \/ cross_compiling(config, platform))
    /\ ~(platform = "win32" /\ ~Truthy(config.v["no_libzmq_extension"])
            /\ ~Truthy(config.v["zmq_prefix"]))
    /\ \E out \in Outcomes, dll_exists \in BOOLEAN :
        \E res \in {CheckResult(out, dll_exists)} :
            /\ last_check' = CheckRecord(out)
            /\ calls' = Append(calls, Call("check_zmq_version",
                                          config.v["zmq_prefix"].v, res = "ok"))
            /\ IF res = "ok"
               THEN /\ conf_json' = config /\ rpc' = "done" /\ UNCHANGED config
               ELSE IF res = "exit"
               THEN /\ rpc' = "exited" /\ UNCHANGED <<config, conf_json>>
               ELSE IF TryUsrLocal(config, platform)
               THEN /\ config' = PyDict([config.v EXCEPT !["zmq_prefix"] = PyStr(UsrLocal)])
                    /\ rpc' = "check2"
                    /\ UNCHANGED conf_json
               ELSE /\ rpc' = "fallback" /\ UNCHANGED <<config, conf_json>>
    /\ UNCHANGED <<setup_cfg, environ, opt_zmq, run_cfg, ext_bundled, runs>>
    /\ UNCHANGED cmdFixed

\* Configure.run, lines 791-802: the check with /usr/local
RunCheckSecond ==
    /\ rpc = "check2"
    /\ \E out \in Outcomes, dll_exists \in BOOLEAN :
        \E res \in {CheckResult(out, dll_exists)} :
            /\ last_check' = CheckRecord(out)
            /\ calls' = Append(calls, Call("check_zmq_version",
                                          config.v["zmq_prefix"].v, res = "ok"))
            /\ IF res = "ok"
               THEN /\ conf_json' = config /\ rpc' = "done"
               ELSE /\ rpc' = "fallback" /\ UNCHANGED conf_json
    /\ UNCHANGED <<setup_cfg, environ, opt_zmq, config, run_cfg, ext_bundled, runs>>
    /\ UNCHANGED cmdFixed

\* Configure.run, lines 806-810: the extension is prohibited, fatal() ends the run
RunFatal ==
    /\ rpc = "fallback"
    /\ Truthy(config.v["no_libzmq_extension"])
    /\ calls' = Append(calls, Call("fatal", <<>>, TRUE))
    /\ rpc' = "exited"
    /\ UNCHANGED <<setup_cfg, environ, opt_zmq, config, run_cfg, conf_json, last_check,
                   ext_bundled, runs>>
    /\ UNCHANGED cmdFixed

\* Configure.run, lines 812-814: fall back on the bundled libzmq
RunFallback ==
    /\ rpc = "fallback"
    /\ ~Truthy(config.v["no_libzmq_extension"])
    /\ Bundle(calls \o <<Call("fallback_on_bundled", <<>>, TRUE)>>)
    /\ UNCHANGED <<setup_cfg, environ, opt_zmq, run_cfg, last_check, runs>>
    /\ UNCHANGED cmdFixed

\* setup.py is run again over the same build directory: config.json stays
NewInvocation ==
    /\ rpc \in {"done", "exited", "raised"}
    /\ runs < MaxRuns
    /\ runs' = runs + 1
    /\ Invocation
    /\ UNCHANGED conf_json
    /\ UNCHANGED cmdFixed

NextConfigure ==
    \/ ConfigureFinalize
    \/ RunBundleConfigured
    \/ RunSkipCheck
    \/ RunWindowsFallback
    \/ RunCheckFirst
    \/ RunCheckSecond
    \/ RunFatal
    \/ RunFallback
    \/ NewInvocation

SpecConfigure == ConfigureInit /\ [][NextConfigure]_vars

----------------------------------------------------------------------------
(* C2 *)

InRun == rpc \in {"run", "check2", "fallback", "done", "exited", "raised"}
           /\ run_cfg # PyNone

IsCheck(c) == c.op = "check_zmq_version"
IsBundle(c) == c.op = "bundle_libzmq_extension"
CheckCalls == SelectSeq(calls, IsCheck)
ConfiguredPrefix == run_cfg.v["zmq_prefix"].v

\* the run is one C2 speaks of: not Windows, libzmq_extension false, check not skipped
CheckedRun ==
    /\ InRun
    /\ platform # "win32"
    /\ ~Truthy(run_cfg.v["libzmq_extension"])
    /\ ~Truthy(run_cfg.v["skip_check_zmq"])
    /\ ~cross_compiling(run_cfg, platform)

\* C2: in such a run bundle_libzmq_extension is called only after
\* check_zmq_version failed for the configured prefix and, with no prefix
\* configured, after a second check with /usr/local failed too; there are at
\* most two checks, the second only with no prefix configured and for
\* /usr/local; after a check that succeeded nothing is bundled.
C2_BundleOnlyAfterFailedChecks ==
    CheckedRun =>
        /\ \A b \in DOMAIN calls :
               IsBundle(calls[b]) =>
                   /\ \E i \in 1..(b - 1) :
                          /\ IsCheck(calls[i])
                          /\ calls[i].prefix = ConfiguredPrefix
                          /\ ~calls[i].ok
                   /\ ConfiguredPrefix = <<>> =>
                          \E i, j \in 1..(b - 1) :
                              /\ i < j
                              /\ IsCheck(calls[i]) /\ ~calls[i].ok
                              /\ IsCheck(calls[j]) /\ ~calls[j].ok
                              /\ calls[j].prefix = UsrLocal
        /\ Len(CheckCalls) <= 2
        /\ Len(CheckCalls) >= 1 => CheckCalls[1].prefix = ConfiguredPrefix
        /\ Len(CheckCalls) = 2 =>
               /\ ConfiguredPrefix = <<>>
               /\ ~CheckCalls[1].ok
               /\ CheckCalls[2].prefix = UsrLocal
        /\ (\E i \in DOMAIN calls : IsCheck(calls[i]) /\ calls[i].ok) =>
               \A b \in DOMAIN calls : ~IsBundle(calls[b])

\* both checks failed and the bundled libzmq was built
C2_Witness ==
    /\ CheckedRun
    /\ ConfiguredPrefix = <<>>
    /\ Len(CheckCalls) = 2
    /\ \E b \in DOMAIN calls : IsBundle(calls[b]) /\ calls[b].ok
    /\ rpc = "done"

----------------------------------------------------------------------------
(* C3 *)

\* C3: a run whose config has no_libzmq_extension true never calls
\* bundle_libzmq_extension, directly or through fallback_on_bundled.
C3_NoBundleWhenProhibited ==
    (InRun /\ Truthy(run_cfg.v["no_libzmq_extension"])) =>
        \A b \in DOMAIN calls : ~IsBundle(calls[b])

----------------------------------------------------------------------------
(* C7 *)

VersionNumber(v) == v[1] * 10000 + v[2] * 100 + v[3]

\* C7: off Windows, a check_zmq_version that detected a version raises
\* LibZMQVersionError exactly when the version is below 2.1.4 with
\* allow_legacy_libzmq and below 3.2 without; when it does not raise it gives at
\* most one of the three warnings.
C7_VersionErrorExactlyBelowMinimum ==
    (fn = "configure" /\ platform # "win32" /\ last_check.built) =>
        /\ last_check.raised <=>
               VersionNumber(last_check.vers)
                   < (IF last_check.allow_legacy THEN 20104 ELSE 30200)
        /\ ~last_check.raised =>
               Cardinality({last_check.warnings[i] : i \in DOMAIN last_check.warnings}) <= 1
        /\ last_check.raised => last_check.warnings = <<>>

\* a legacy version accepted, with its warning, because the prefix was explicit
C7_Witness ==
    /\ fn = "configure"
    /\ platform # "win32"
    /\ last_check.built
    /\ last_check.allow_legacy
    /\ last_check.vers = <<2, 1, 4>>
    /\ ~last_check.raised
    /\ last_check.warnings = <<"legacy">>
    /\ rpc = "done"

----------------------------------------------------------------------------
(* setup.py: the sdist command *)

\* setup.py:1184-1200, the sources of the extensions without their suffix
\* (three of the eleven)
ExtensionStems == {"zmq/backend/cython/message", "zmq/backend/cython/socket",
                   "zmq/devices/monitoredqueue"}

PyxFile(stem) == <<stem, "pyx">>

\* line 1038: cfile = pyxfile[:-3] + 'c'
CFileOf(pyxfile) == <<pyxfile[1], "c">>

\* the trees an invocation can start in
FileTrees == SUBSET (ExtensionStems \X {"pyx", "c"})

\* lines 1149-1158: cmdclass before the cython command is chosen
BaseCmdclass == [k \in {"clean", "configure", "fetch_libzmq", "sdist"} |->
                    CASE k = "clean" -> "CleanCommand"
                      [] k = "configure" -> "Configure"
                      [] k = "fetch_libzmq" -> "FetchCommand"
                      [] k = "sdist" -> "CheckSDist"]

SetItem(d, k, v) == [x \in DOMAIN d \cup {k} |-> IF x = k THEN v ELSE d[x]]

\* a list holding the elements of a set, in some order
RECURSIVE ListOf(_)
ListOf(S) == IF S = {} THEN <<>>
             ELSE LET x == CHOOSE y \in S : TRUE IN <<x>> \o ListOf(S \ {x})

SDistInit ==
    /\ ArgvIdle
    /\ ConfIdle
    /\ CmdIdle
    /\ files \in FileTrees
    /\ cython \in BOOLEAN
    /\ cmdclass = BaseCmdclass
    /\ pyxfiles = <<>>
    /\ sdist_warned = FALSE
    /\ spc = "load"

sdistFixed == <<argvVars, confVars, cmdVars>>

\* lines 1206-1279 and 1286-1301: at import, setup.py registers the cython
\* command in cmdclass whether or not Cython is usable; with Cython it
\* cythonizes the extensions, which writes their .c files or raises
LoadSetup ==
    /\ spc = "load"
    /\ IF cython
       THEN /\ cmdclass' = SetItem(cmdclass, "cython", "CythonCommand")
            /\ IF \A st \in ExtensionStems : PyxFile(st) \in files
               THEN \E compiled \in BOOLEAN :
                        IF compiled
                        THEN /\ files' = files \cup {CFileOf(PyxFile(st)) : st \in ExtensionStems}
                             /\ spc' = "initialize_options"
                        ELSE /\ spc' = "failed" /\ UNCHANGED files
               ELSE /\ spc' = "failed" /\ UNCHANGED files
       ELSE /\ cmdclass' = SetItem(cmdclass, "cython", "MissingCython")
            /\ spc' = "initialize_options"
            /\ UNCHANGED files
    /\ UNCHANGED <<cython, pyxfiles, sdist_warned>>
    /\ UNCHANGED sdistFixed

\* lines 1024-1030: CheckSDist.initialize_options
SDistInitializeOptions ==
    /\ spc = "initialize_options"
    /\ pyxfiles' = ListOf({f \in files : f[2] = "pyx"})
    /\ spc' = "fetch_libzmq"
    /\ UNCHANGED <<files, cython, cmdclass, sdist_warned>>
    /\ UNCHANGED sdistFixed

\* line 1033: self.run_command('fetch_libzmq'), a download that can fail
SDistFetch ==
    /\ spc = "fetch_libzmq"
    /\ \E fetched \in BOOLEAN :
           spc' = IF fetched THEN "cython" ELSE "failed"
    /\ UNCHANGED <<files, cython, cmdclass, pyxfiles, sdist_warned>>
    /\ UNCHANGED sdistFixed

\* lines 1034-1043: run the cython command if there is one, else assert that
\* every .c file is there. MissingCython.run (1232-1244) only warns;
\* CythonCommand (1252-1260) runs build_ext with build_extension a no-op.
SDistCython ==
    /\ spc = "cython"
    /\ IF "cython" \in DOMAIN cmdclass
       THEN /\ IF cmdclass["cython"] = "MissingCython"
               THEN \E w \in BOOLEAN : sdist_warned' = w
               ELSE UNCHANGED sdist_warned
            /\ spc' = "sdist.run"
       ELSE /\ spc' = IF \A i \in DOMAIN pyxfiles : CFileOf(pyxfiles[i]) \in files
                      THEN "sdist.run" ELSE "failed"
            /\ UNCHANGED sdist_warned
    /\ UNCHANGED <<files, cython, cmdclass, pyxfiles>>
    /\ UNCHANGED sdistFixed

\* line 1044: sdist.run(self)
SDistRun ==
    /\ spc = "sdist.run"
    /\ spc' = "packaged"
    /\ UNCHANGED <<files, cython, cmdclass, pyxfiles, sdist_warned>>
    /\ UNCHANGED sdistFixed

NextSDist ==
    \/ LoadSetup
    \/ SDistInitializeOptions
    \/ SDistFetch
    \/ SDistCython
    \/ SDistRun

SpecSDist == SDistInit /\ [][NextSDist]_vars

----------------------------------------------------------------------------
(* C8 *)

\* C8: CheckSDist.run reaches sdist.run only if every .pyx file under zmq/
\* has its .c file, with or without a usable Cython.
C8_SDistOnlyWithAllCFiles ==
    spc \in {"sdist.run", "packaged"} =>
        \A f \in files : f[2] = "pyx" => CFileOf(f) \in files

====
